---- MODULE Spec2Model ----
(***************************************************************************)
(* View geometry of aten/src/ATen/native/TensorShape.cpp.                  *)
(*                                                                         *)
(* A tensor handle is a record [sizes, strides, offset, storage]; every    *)
(* native function of the file is an operator from the handle and its      *)
(* arguments to a result [ok, out], where ok = FALSE stands for the thrown *)
(* error (AT_ERROR / AT_CHECK / std::runtime_error).  The state machine    *)
(* applies the functions to a handle, starting from a freshly allocated    *)
(* contiguous tensor, and continues from the returned view.                *)
(*                                                                         *)
(* The file is modelled as compiled without USE_TH_SIZE_ZERO_DIM, the      *)
(* build spec.md describes (narrow requires length > 0, diagonal requires  *)
(* diag_size > 0, infer_size collapses zero-element shapes, unsqueeze      *)
(* rejects empty tensors).  In that build a size of 0 only occurs in the   *)
(* empty tensor, whose sizes are <<0>>.  Sizes, strides and offsets stay   *)
(* far below 2^63, so the int64_t arithmetic of the file is exact.         *)
(*                                                                         *)
(* A storage is a record [id, data]: data is the buffer, one entry per     *)
(* element, and the entries of a freshly allocated buffer are 0, 1, 2, ..  *)
(* so that an element is told from every other one of its buffer.          *)
(*                                                                         *)
(* The in-place variants (transpose_, squeeze_, unsqueeze_) write the      *)
(* handle they are called on; `others` holds the handles on the same       *)
(* storage that the caller has kept.  SpecInPlace is the machine with      *)
(* those calls, Spec the one with the functions that return views.         *)
(***************************************************************************)
EXTENDS Integers, Sequences, FiniteSets, TLC

VARIABLES cur, call, ret, nops, others

vars == <<cur, call, ret, nops, others>>

(***************************** bounds **************************************)
\* largest rank of an initial tensor
MaxRank == 3
\* largest size of a dimension of an initial tensor of rank >= 2
MaxSize == 3
\* largest number of elements of an initial tensor
MaxNumel == 6
\* largest size of the dimension of an initial tensor of rank 1
MaxLen == 4
\* number of view operations applied in a row
MaxOps == 2
\* longest list argument (split_with_sizes, infer_size)
MaxList == 3
\* calls made on one handle when in-place calls are among them
MaxInPlace == 3

(***************************** build ***************************************)
\* #ifndef USE_TH_SIZE_ZERO_DIM : the macro is not defined
USE_TH_SIZE_ZERO_DIM == FALSE

(***************************** helpers *************************************)
Max(a, b) == IF a >= b THEN a ELSE b
Min(a, b) == IF a <= b THEN a ELSE b

\* C++ integer division (truncation toward zero), b # 0
CDiv(a, b) ==
  IF (a >= 0) = (b > 0) THEN (IF a >= 0 THEN a \div b ELSE (-a) \div (-b))
  ELSE -((IF a >= 0 THEN a ELSE -a) \div (IF b >= 0 THEN b ELSE -b))

\* C++ remainder, sign of the dividend
CMod(a, b) == a - b * CDiv(a, b)

RECURSIVE Prod(_)
Prod(s) == IF s = <<>> THEN 1 ELSE Head(s) * Prod(Tail(s))

RECURSIVE Sum(_)
Sum(s) == IF s = <<>> THEN 0 ELSE Head(s) + Sum(Tail(s))

\* std::vector::erase(begin() + i), i counted from 0
Erase(s, i) == [j \in 1..(Len(s) - 1) |-> IF j <= i THEN s[j] ELSE s[j + 1]]

\* std::vector::insert(begin() + i, v), i counted from 0
InsertAt(s, i, v) ==
  [j \in 1..(Len(s) + 1) |-> IF j <= i THEN s[j] ELSE IF j = i + 1 THEN v ELSE s[j - 1]]

\* a thrown error, and a returned value
Fail == [ok |-> FALSE, out |-> <<>>]
Ok(v) == [ok |-> TRUE, out |-> v]

(***************************** tensor handle *******************************)
Tensor(sizes, strides, offset, storage) ==
  [sizes |-> sizes, strides |-> strides, offset |-> offset, storage |-> storage]

Rank(t) == Len(t.sizes)

Numel(t) == Prod(t.sizes)

\* strides of a freshly allocated (contiguous, row-major) tensor
RECURSIVE ContiguousStrides(_)
ContiguousStrides(sizes) ==
  IF sizes = <<>> THEN <<>>
  ELSE <<Prod(Tail(sizes))>> \o ContiguousStrides(Tail(sizes))

\* a buffer of n elements, told apart by their values 0 .. n-1
Storage(id, n) == [id |-> id, data |-> [k \in 1..n |-> k - 1]]

\* self.type().tensor(): a new empty tensor with storage of its own
EmptyTensor == Tensor(<<0>>, <<1>>, 0, Storage("fresh", 0))

\* the set of in-bounds multi-indices of a tensor with these sizes
RECURSIVE Indices(_)
Indices(sizes) ==
  IF sizes = <<>> THEN {<<>>}
  ELSE {<<i>> \o r : i \in 0..(Head(sizes) - 1), r \in Indices(Tail(sizes))}

\* addr(i_0, .., i_k-1) = storage_offset + sum i_j * stride_j
Addr(t, I) == t.offset + Sum([j \in 1..Len(I) |-> I[j] * t.strides[j]])

(***************************** dimension wrapping **************************)
\* maybe_wrap_dim(dim, dim_post_expr): a rank <= 0 is treated as 1
WrapRange(n) == IF n <= 0 THEN 1 ELSE n

DimOk(dim, n) == dim >= -WrapRange(n) /\ dim <= WrapRange(n) - 1

maybe_wrap_dim(dim, n) == IF dim < 0 THEN dim + WrapRange(n) ELSE dim

\* Tensor::as_strided(size, stride, storage_offset): a view of self's storage
as_strided(self, sizes, strides, storage_offset) ==
  Tensor(sizes, strides, storage_offset, self.storage)

(***************************** select / slice / narrow *********************)
\* if (index < 0) index += size;  (the unwrapped index as a plausible slip)
select_index_unwrapped(index, size) == index

select_index(index, size) == IF index < 0 THEN index + size ELSE index

select(self, dim_, index_) ==
  LET ndim == Rank(self) IN
  IF ~(ndim > 0) THEN Fail
  ELSE IF ~DimOk(dim_, ndim) THEN Fail
  ELSE
    LET dim == maybe_wrap_dim(dim_, ndim)
        size == self.sizes[dim + 1]
    IN
    IF index_ < -size \/ index_ >= size THEN Fail
    ELSE
      LET index == select_index(index_, size)
          storage_offset == self.offset + index * self.strides[dim + 1]
      IN Ok(as_strided(self, Erase(self.sizes, dim), Erase(self.strides, dim),
                       storage_offset))

\* the new size rounded down instead of up
slice_len_floor(len, step) == CDiv(len, step)

\* sizes[dim] = (len + step - 1) / step;  // round-up
slice_len(len, step) == CDiv(len + step - 1, step)

slice(self, dim_, start_, end_, step) ==
  LET ndim == Rank(self) IN
  IF ~(ndim > 0) THEN Fail
  ELSE IF ~DimOk(dim_, ndim) THEN Fail
  ELSE IF step <= 0 THEN Fail
  ELSE
    LET dim == maybe_wrap_dim(dim_, ndim)
        sz == self.sizes[dim + 1]
        start1 == IF start_ < 0 THEN start_ + sz ELSE start_
        end1 == IF end_ < 0 THEN end_ + sz ELSE end_
        start == IF start1 < 0 THEN 0 ELSE IF start1 >= sz THEN sz ELSE start1
        end == IF end1 < start THEN start ELSE IF end1 >= sz THEN sz ELSE end1
        storage_offset == self.offset + start * self.strides[dim + 1]
        len == end - start
    IN
    IF ~USE_TH_SIZE_ZERO_DIM /\ len = 0 THEN Ok(EmptyTensor)
    ELSE Ok(as_strided(self,
                       [self.sizes EXCEPT ![dim + 1] = slice_len(len, step)],
                       [self.strides EXCEPT ![dim + 1] = @ * step],
                       storage_offset))

\* the range test with >= for >
narrow_rejects_off_by_one(start, length, cur_size) ==
  (IF ~USE_TH_SIZE_ZERO_DIM THEN length <= 0 ELSE length < 0)
  \/ start >= cur_size - length

\* if (length <= 0 || start > cur_size - length)   (length < 0 with the macro)
narrow_rejects(start, length, cur_size) ==
  (IF ~USE_TH_SIZE_ZERO_DIM THEN length <= 0 ELSE length < 0)
  \/ start > cur_size - length

narrow(self, dim, start, length) ==
  IF ~(Rank(self) > 0) THEN Fail
  ELSE IF ~DimOk(dim, Rank(self)) THEN Fail
  ELSE
    LET cur_size == self.sizes[maybe_wrap_dim(dim, Rank(self)) + 1] IN
    IF start < 0 THEN Fail
    ELSE IF narrow_rejects(start, length, cur_size) THEN Fail
    ELSE slice(self, dim, start, start + length, 1)

(***************************** split / split_with_sizes / chunk ************)
\* Tensor::size(dim) of a tensor of rank >= 1, dim already checked
size_at(self, dim) == self.sizes[maybe_wrap_dim(dim, Rank(self)) + 1]

\* a list of results as one result: the first thrown error ends the call
Collect(parts) ==
  IF \A i \in 1..Len(parts) : parts[i].ok
  THEN Ok([i \in 1..Len(parts) |-> parts[i].out])
  ELSE Fail

\* num_splits = std::max<int64_t>((dim_size + split_size - 1) / split_size, 1)
split_num(dim_size, split_size) ==
  IF split_size # 0 THEN Max(CDiv(dim_size + split_size - 1, split_size), 1) ELSE 1

split(self, split_size, dim) ==
  IF ~(Rank(self) # 0) THEN Fail
  ELSE IF ~(split_size >= 0) THEN Fail
  ELSE IF ~DimOk(dim, Rank(self)) THEN Fail
  ELSE
    LET dim_size == size_at(self, dim) IN
    IF ~(split_size > 0 \/ dim_size = 0) THEN Fail
    ELSE
      LET num_splits == split_num(dim_size, split_size)
          last_split_size == split_size - (split_size * num_splits - dim_size)
          length(i) == IF i < num_splits - 1 THEN split_size ELSE last_split_size
      IN Collect([k \in 1..num_splits |->
                    narrow(self, dim, (k - 1) * split_size, length(k - 1))])

\* the loop of split_with_sizes from entry i on, start_idx being the running sum
RECURSIVE sws_loop(_, _, _, _, _, _)
sws_loop(self, split_sizes, dim, i, start_idx, splits) ==
  IF i > Len(split_sizes)
  THEN IF start_idx # size_at(self, dim) THEN Fail ELSE Ok(splits)
  ELSE
    LET length == split_sizes[i] IN
    IF length < 0 THEN Fail
    ELSE
      LET part == narrow(self, dim, start_idx, length) IN
      IF ~part.ok THEN Fail
      ELSE sws_loop(self, split_sizes, dim, i + 1, start_idx + length,
                    Append(splits, part.out))

split_with_sizes(self, split_sizes, dim) ==
  IF ~(Rank(self) # 0) THEN Fail
  ELSE IF ~DimOk(dim, Rank(self)) THEN Fail
  ELSE sws_loop(self, split_sizes, dim, 1, 0, <<>>)

\* split_size = (self.size(dim) + chunks - 1) / chunks
chunk_split_size(dim_size, chunks) == CDiv(dim_size + chunks - 1, chunks)

chunk(self, chunks, dim) ==
  IF Rank(self) = 0 THEN Fail
  ELSE IF chunks <= 0 THEN Fail
  ELSE IF ~DimOk(dim, Rank(self)) THEN Fail
  ELSE
    LET dim_size == size_at(self, dim)
        split_size == chunk_split_size(dim_size, chunks)
    IN
    IF split_size = 0 /\ dim_size = 0
    THEN split_with_sizes(self,
           [k \in 1..chunks |->
              IF k = chunks THEN split_size - (split_size * chunks - dim_size)
              ELSE split_size],
           dim)
    ELSE split(self, split_size, dim)

(***************************** infer_size *********************************)
\* the loop of infer_size from entry `dim` (counted from 1) on:
\* [ok, newsize, infer_dim], infer_dim = 0 when no entry is -1
RECURSIVE infer_scan(_, _, _, _)
infer_scan(shape, dim, newsize, infer_dim) ==
  IF dim > Len(shape) THEN [ok |-> TRUE, newsize |-> newsize, infer_dim |-> infer_dim]
  ELSE IF shape[dim] = -1
       THEN IF infer_dim # 0
            THEN [ok |-> FALSE, newsize |-> newsize, infer_dim |-> infer_dim]
            ELSE infer_scan(shape, dim + 1, newsize, dim)
  ELSE IF shape[dim] >= 0
       THEN infer_scan(shape, dim + 1, newsize * shape[dim], infer_dim)
  ELSE [ok |-> FALSE, newsize |-> newsize, infer_dim |-> infer_dim]

\* the divisibility test left out
infer_accepts_any_multiple(numel, newsize, has_infer_dim) ==
  numel = newsize \/ (has_infer_dim /\ newsize > 0)

\* numel == newsize || (infer_dim && newsize > 0 && numel % newsize == 0)
infer_accepts(numel, newsize, has_infer_dim) ==
  numel = newsize \/ (has_infer_dim /\ newsize > 0 /\ CMod(numel, newsize) = 0)

infer_size(shape, numel) ==
  LET sc == infer_scan(shape, 1, 1, 0) IN
  IF ~sc.ok THEN Fail
  ELSE IF infer_accepts(numel, sc.newsize, sc.infer_dim # 0)
       THEN IF sc.infer_dim # 0 /\ ~(sc.newsize # 0) THEN Fail
            ELSE IF ~USE_TH_SIZE_ZERO_DIM /\ numel = 0 THEN Ok(<<0>>)
            ELSE IF sc.infer_dim # 0
                 THEN Ok([shape EXCEPT ![sc.infer_dim] = CDiv(numel, sc.newsize)])
                 ELSE Ok(shape)
  ELSE Fail

(***************************** diagonal ***********************************)
\* the offset taken off the wrong dimension for offset >= 0
diag_size_of_swapped(size1, size2, offset) ==
  IF offset >= 0 THEN Max(Min(size1 - offset, size2), 0)
  ELSE Max(Min(size1 + offset, size2), 0)

diag_size_of(size1, size2, offset) ==
  IF offset >= 0 THEN Max(Min(size1, size2 - offset), 0)
  ELSE Max(Min(size1 + offset, size2), 0)

diagonal(self, offset, dim1_, dim2_) ==
  LET nDims == Rank(self) IN
  IF ~DimOk(dim1_, nDims) \/ ~DimOk(dim2_, nDims) THEN Fail
  ELSE
    LET dim1 == maybe_wrap_dim(dim1_, nDims)
        dim2 == maybe_wrap_dim(dim2_, nDims)
    IN
    IF ~(dim1 # dim2) THEN Fail
    ELSE
      LET diag_size == diag_size_of(self.sizes[dim1 + 1], self.sizes[dim2 + 1], offset)
          storage_offset ==
            IF diag_size = 0 THEN self.offset
            ELSE IF offset >= 0 THEN self.offset + offset * self.strides[dim2 + 1]
            ELSE self.offset - offset * self.strides[dim1 + 1]
          sizes == Erase(Erase(self.sizes, Max(dim1, dim2)), Min(dim1, dim2))
          strides == Erase(Erase(self.strides, Max(dim1, dim2)), Min(dim1, dim2))
      IN
      IF ~USE_TH_SIZE_ZERO_DIM /\ ~(diag_size > 0) THEN Fail
      ELSE Ok(as_strided(self,
                         Append(sizes, diag_size),
                         Append(strides, self.strides[dim1 + 1] + self.strides[dim2 + 1]),
                         storage_offset))

(***************************** permute / transpose *************************)
\* the repetition test left out
permute_repeated_never(dim, seen) == FALSE

\* if (seen[dim])
permute_repeated(dim, seen) == dim \in seen

\* the loop of permute from entry i (counted from 1) on; seen is the set of
\* source dimensions already used
RECURSIVE permute_loop(_, _, _, _, _, _)
permute_loop(self, dims, i, seen, newSizes, newStrides) ==
  IF i > Len(dims)
  THEN Ok(as_strided(self, newSizes, newStrides, self.offset))
  ELSE IF ~DimOk(dims[i], Rank(self)) THEN Fail
  ELSE
    LET dim == maybe_wrap_dim(dims[i], Rank(self)) IN
    IF permute_repeated(dim, seen) THEN Fail
    ELSE permute_loop(self, dims, i + 1, seen \cup {dim},
                      Append(newSizes, self.sizes[dim + 1]),
                      Append(newStrides, self.strides[dim + 1]))

permute(self, dims) ==
  IF Len(dims) # Rank(self) THEN Fail
  ELSE permute_loop(self, dims, 1, {}, <<>>, <<>>)

\* std::swap(v[i], v[j]), i and j counted from 0
Swap(v, i, j) == [v EXCEPT ![i + 1] = v[j + 1], ![j + 1] = v[i + 1]]

transpose(self, dim0_, dim1_) ==
  LET ndims == Rank(self) IN
  IF ~DimOk(dim0_, ndims) \/ ~DimOk(dim1_, ndims) THEN Fail
  ELSE
    LET dim0 == maybe_wrap_dim(dim0_, ndims)
        dim1 == maybe_wrap_dim(dim1_, ndims)
    IN
    IF dim0 = dim1 THEN Ok(self)
    ELSE Ok(as_strided(self, Swap(self.sizes, dim0, dim1),
                       Swap(self.strides, dim0, dim1), self.offset))

(***************************** squeeze / unsqueeze *************************)
\* the entries of v, from position d (counted from 1) on, that keep retains
RECURSIVE KeepFrom(_, _, _)
KeepFrom(v, d, keep) ==
  IF d > Len(v) THEN <<>>
  ELSE (IF keep[d] THEN <<v[d]>> ELSE <<>>) \o KeepFrom(v, d + 1, keep)

\* the strides of the leading dimensions kept instead of those of the
\* dimensions whose size is not 1
inferSqueezeGeometry_leading_strides(tensor) ==
  LET keep == [d \in 1..Rank(tensor) |-> tensor.sizes[d] # 1]
      sizes == KeepFrom(tensor.sizes, 1, keep)
  IN [sizes |-> sizes, strides |-> SubSeq(tensor.strides, 1, Len(sizes))]

\* inferSqueezeGeometry(tensor): [sizes, strides]
inferSqueezeGeometry(tensor) ==
  LET keep == [d \in 1..Rank(tensor) |-> tensor.sizes[d] # 1] IN
  [sizes |-> KeepFrom(tensor.sizes, 1, keep),
   strides |-> KeepFrom(tensor.strides, 1, keep)]

\* inferSqueezeGeometry(tensor, dim), dim counted from 0
inferSqueezeGeometryDim(tensor, dim) ==
  LET keep == [d \in 1..Rank(tensor) |->
                (d - 1) # dim \/ tensor.sizes[dim + 1] # 1] IN
  [sizes |-> KeepFrom(tensor.sizes, 1, keep),
   strides |-> KeepFrom(tensor.strides, 1, keep)]

\* new_stride = dim >= tensor.dim() ? 1 : sizes[dim] * strides[dim]
unsqueeze_stride(tensor, dim) ==
  IF dim >= Rank(tensor) THEN 1 ELSE tensor.sizes[dim + 1] * tensor.strides[dim + 1]

\* inferUnsqueezeGeometry(tensor, dim), dim already wrapped
inferUnsqueezeGeometry(tensor, dim) ==
  IF ~USE_TH_SIZE_ZERO_DIM /\ Numel(tensor) = 0 THEN Fail
  ELSE Ok([sizes |-> InsertAt(tensor.sizes, dim, 1),
           strides |-> InsertAt(tensor.strides, dim, unsqueeze_stride(tensor, dim))])

squeeze(self) ==
  LET g == inferSqueezeGeometry(self) IN
  Ok(as_strided(self, g.sizes, g.strides, self.offset))

squeeze_dim(self, dim_) ==
  LET dims == Rank(self) IN
  IF ~DimOk(dim_, dims) THEN Fail
  ELSE
    LET dim == maybe_wrap_dim(dim_, dims) IN
    IF dims = 0 \/ self.sizes[dim + 1] # 1
    THEN Ok(as_strided(self, self.sizes, self.strides, self.offset))
    ELSE LET g == inferSqueezeGeometryDim(self, dim) IN
         Ok(as_strided(self, g.sizes, g.strides, self.offset))

unsqueeze(self, dim_) ==
  IF ~DimOk(dim_, Rank(self) + 1) THEN Fail
  ELSE
    LET g == inferUnsqueezeGeometry(self, maybe_wrap_dim(dim_, Rank(self) + 1)) IN
    IF ~g.ok THEN Fail
    ELSE Ok(as_strided(self, g.out.sizes, g.out.strides, self.offset))

(***************************** in-place variants ***************************)
\* the result of an in-place call: whether it returned, and the handle as
\* the call left it
Thrown(self) == [ok |-> FALSE, out |-> self]
Done(self) == [ok |-> TRUE, out |-> self]

\* Tensor::as_strided_(size, stride, storage_offset): the geometry of the
\* handle is overwritten, its storage is kept
Tensor_as_strided_(self, size, stride, storage_offset) ==
  [self EXCEPT !.sizes = size, !.strides = stride, !.offset = storage_offset]

\* the handle's own offset not passed on
as_strided__offset_dropped(self, size, stride) ==
  Tensor_as_strided_(self, size, stride, 0)

\* as_strided_(self, size, stride)
as_strided_(self, size, stride) ==
  Tensor_as_strided_(self, size, stride, self.offset)

transpose_(self, dim0_, dim1_) ==
  LET ndims == Rank(self) IN
  IF ~DimOk(dim0_, ndims) \/ ~DimOk(dim1_, ndims) THEN Thrown(self)
  ELSE
    LET dim0 == maybe_wrap_dim(dim0_, ndims)
        dim1 == maybe_wrap_dim(dim1_, ndims)
    IN
    IF dim0 = dim1 THEN Done(self)
    ELSE Done(as_strided_(self, Swap(self.sizes, dim0, dim1),
                          Swap(self.strides, dim0, dim1)))

squeeze_(self) ==
  LET g == inferSqueezeGeometry(self) IN
  Done(as_strided_(self, g.sizes, g.strides))

squeeze__dim(self, dim_) ==
  LET dims == Rank(self) IN
  IF ~DimOk(dim_, dims) THEN Thrown(self)
  ELSE
    LET dim == maybe_wrap_dim(dim_, dims) IN
    IF dims = 0 \/ self.sizes[dim + 1] # 1
    THEN Done(as_strided_(self, self.sizes, self.strides))
    ELSE LET g == inferSqueezeGeometryDim(self, dim) IN
         Done(as_strided_(self, g.sizes, g.strides))

unsqueeze_(self, dim_) ==
  IF ~DimOk(dim_, Rank(self) + 1) THEN Thrown(self)
  ELSE
    LET g == inferUnsqueezeGeometry(self, maybe_wrap_dim(dim_, Rank(self) + 1)) IN
    IF ~g.ok THEN Thrown(self)
    ELSE Done(as_strided_(self, g.out.sizes, g.out.strides))

(***************************** reshape ************************************)
\* the multi-index at position k (from 0) of the row-major order of `sizes`
RECURSIVE Unravel(_, _)
Unravel(k, sizes) ==
  IF sizes = <<>> THEN <<>>
  ELSE LET inner == Prod(Tail(sizes)) IN
       <<k \div inner>> \o Unravel(k % inner, Tail(sizes))

\* the addresses, relative to the storage offset, of the elements of a
\* geometry in row-major order
RowMajor(sizes, strides) ==
  [k \in 1..Prod(sizes) |->
     LET I == Unravel(k - 1, sizes) IN Sum([j \in 1..Len(sizes) |-> I[j] * strides[j]])]

\* the only strides with which `newsizes` could lay the elements out as
\* they are: the stride of a dimension is the address of the element one
\* step along it; a dimension of size <= 1 addresses nothing and gets 1
compute_stride_candidate(oldsizes, oldstrides, newsizes) ==
  [j \in 1..Len(newsizes) |->
     IF newsizes[j] > 1
     THEN RowMajor(oldsizes, oldstrides)[Prod(SubSeq(newsizes, j + 1, Len(newsizes))) + 1]
     ELSE 1]

\* THTensor_compute_stride(oldsizes, oldstrides, newsizes): the strides
\* that make `newsizes` a view of the same elements in the same row-major
\* order, or nothing when the layout does not allow it without a copy
THTensor_compute_stride(oldsizes, oldstrides, newsizes) ==
  IF Prod(newsizes) # Prod(oldsizes) THEN Fail
  ELSE LET stride == compute_stride_candidate(oldsizes, oldstrides, newsizes) IN
       IF RowMajor(newsizes, stride) = RowMajor(oldsizes, oldstrides)
       THEN Ok(stride)
       ELSE Fail

\* self.clone(): a contiguous tensor of the same sizes over a new buffer
\* that holds self's elements in row-major order
clone(self) ==
  Tensor(self.sizes, ContiguousStrides(self.sizes), 0,
         [id |-> "copy",
          data |-> [k \in 1..Numel(self) |->
                      self.storage.data[self.offset
                                        + RowMajor(self.sizes, self.strides)[k] + 1]]])

\* self.view(size): a view of the given sizes, an error when the layout
\* does not allow one
view(self, size) ==
  LET stride == THTensor_compute_stride(self.sizes, self.strides, size) IN
  IF stride.ok THEN Ok(as_strided(self, size, stride.out, self.offset)) ELSE Fail

_unsafe_view(self, size) == view(self, size)

\* the copy fallback left out: the new sizes laid contiguously over self's
\* own storage whatever its strides are
reshape_always_view(self, proposed_shape) ==
  LET shape == infer_size(proposed_shape, Numel(self)) IN
  IF ~shape.ok THEN Fail
  ELSE Ok(as_strided(self, shape.out, ContiguousStrides(shape.out), self.offset))

reshape(self, proposed_shape) ==
  LET shape == infer_size(proposed_shape, Numel(self)) IN
  IF ~shape.ok THEN Fail
  ELSE LET stride == THTensor_compute_stride(self.sizes, self.strides, shape.out) IN
       IF stride.ok
       THEN Ok(as_strided(self, shape.out, stride.out, self.offset))
       ELSE _unsafe_view(clone(self), shape.out)

(***************************** state machine *******************************)
\* shapes of the freshly allocated tensors: every size >= 1
RECURSIVE Shapes(_, _)
Shapes(r, m) ==
  IF r = 0 THEN {<<>>}
  ELSE {<<n>> \o s : n \in 1..m, s \in Shapes(r - 1, m)}

InitShapes ==
  {s \in {<<>>} \cup Shapes(1, MaxLen) \cup UNION {Shapes(r, MaxSize) : r \in 2..MaxRank} :
     Prod(s) <= MaxNumel}

InitTensors ==
  {Tensor(s, ContiguousStrides(s), 0, Storage("base", Prod(s))) : s \in InitShapes}
  \cup {EmptyTensor}

\* arguments: dimensions (with one invalid value on either side), positions
DimArgs(t) == (-(Rank(t) + 1))..Rank(t)
RECURSIVE MaxOf(_)
MaxOf(s) == IF s = <<>> THEN 1 ELSE Max(Head(s), MaxOf(Tail(s)))
\* the largest size of t, at least 1
MaxDimSize(t) == MaxOf(t.sizes)
PosArgs(t) == (-(MaxDimSize(t) + 1))..(MaxDimSize(t) + 1)
StepArgs == (-1)..MaxSize
\* requested shapes: at most MaxList entries, from -2 to the largest size
ShapeArgs(t) == UNION {[1..n -> (-2)..MaxDimSize(t)] : n \in 0..MaxList}
\* dimension lists of at most MaxRank entries
PermArgs(t) == UNION {[1..n -> DimArgs(t)] : n \in 0..MaxRank}
\* insertion positions: the range of rank + 1, one invalid value on either side
UnsqueezeArgs(t) == (-(Rank(t) + 2))..(Rank(t) + 1)
\* lists of at most MaxList entries, from -1 to the largest size
ListArgs(t) == UNION {[1..n -> (-1)..MaxDimSize(t)] : n \in 0..MaxList}

\* proposed shapes of reshape: entries up to the number of elements
ReshapeArgs(t) == UNION {[1..n -> (-1)..Numel(t)] : n \in 0..MaxList}

Idle == [op |-> "idle"]

Init ==
  /\ cur \in InitTensors
  /\ call = Idle
  /\ ret = Fail
  /\ nops = 0
  /\ others = <<>>

\* one call on the current handle: the arguments and the result are recorded
Ready == call = Idle /\ nops < MaxOps

Apply(c, r) ==
  /\ call' = c
  /\ ret' = r
  /\ nops' = nops + 1
  /\ UNCHANGED <<cur, others>>

Select ==
  /\ Ready
  /\ \E dim \in DimArgs(cur), index \in PosArgs(cur) :
    Apply([op |-> "select", dim |-> dim, index |-> index],
          select(cur, dim, index))

Slice ==
  /\ Ready
  /\ \E dim \in DimArgs(cur), start \in PosArgs(cur), end \in PosArgs(cur),
     step \in StepArgs :
    Apply([op |-> "slice", dim |-> dim, start |-> start, end |-> end,
           step |-> step],
          slice(cur, dim, start, end, step))

Narrow ==
  /\ Ready
  /\ \E dim \in DimArgs(cur), start \in PosArgs(cur), length \in PosArgs(cur) :
    Apply([op |-> "narrow", dim |-> dim, start |-> start, length |-> length],
          narrow(cur, dim, start, length))

Split ==
  /\ Ready
  /\ \E split_size \in PosArgs(cur), dim \in DimArgs(cur) :
    Apply([op |-> "split", split_size |-> split_size, dim |-> dim],
          split(cur, split_size, dim))

SplitWithSizes ==
  /\ Ready
  /\ \E split_sizes \in ListArgs(cur), dim \in DimArgs(cur) :
    Apply([op |-> "split_with_sizes", split_sizes |-> split_sizes, dim |-> dim],
          split_with_sizes(cur, split_sizes, dim))

Chunk ==
  /\ Ready
  /\ \E chunks \in PosArgs(cur), dim \in DimArgs(cur) :
    Apply([op |-> "chunk", chunks |-> chunks, dim |-> dim],
          chunk(cur, chunks, dim))

InferSize ==
  /\ Ready
  /\ \E shape \in ShapeArgs(cur) :
    Apply([op |-> "infer_size", shape |-> shape, numel |-> Numel(cur)],
          infer_size(shape, Numel(cur)))

Diagonal ==
  /\ Ready
  /\ \E offset \in PosArgs(cur), dim1 \in DimArgs(cur), dim2 \in DimArgs(cur) :
    Apply([op |-> "diagonal", offset |-> offset, dim1 |-> dim1, dim2 |-> dim2],
          diagonal(cur, offset, dim1, dim2))

Permute ==
  /\ Ready
  /\ \E dims \in PermArgs(cur) :
    Apply([op |-> "permute", dims |-> dims], permute(cur, dims))

Transpose ==
  /\ Ready
  /\ \E dim0 \in DimArgs(cur), dim1 \in DimArgs(cur) :
    Apply([op |-> "transpose", dim0 |-> dim0, dim1 |-> dim1],
          transpose(cur, dim0, dim1))

Squeeze ==
  /\ Ready
  /\ Apply([op |-> "squeeze"], squeeze(cur))

SqueezeDim ==
  /\ Ready
  /\ \E dim \in DimArgs(cur) :
    Apply([op |-> "squeeze_dim", dim |-> dim], squeeze_dim(cur, dim))

Unsqueeze ==
  /\ Ready
  /\ \E dim \in UnsqueezeArgs(cur) :
    Apply([op |-> "unsqueeze", dim |-> dim], unsqueeze(cur, dim))

Reshape ==
  /\ Ready
  /\ \E shape \in ReshapeArgs(cur) :
    Apply([op |-> "reshape", shape |-> shape], reshape(cur, shape))

\* the functions that return one tensor, and those that return a list of them
ViewOps ==
  {"select", "slice", "narrow", "diagonal", "permute", "transpose", "squeeze",
   "squeeze_dim", "unsqueeze"}
ListOps == {"split", "split_with_sizes", "chunk"}

\* the caller goes on with a returned tensor as its handle
Continue ==
  /\ call # Idle
  /\ ret.ok
  /\ \/ /\ call.op \in ViewOps
        /\ cur' = ret.out
     \/ /\ call.op \in ListOps
        /\ \E i \in 1..Len(ret.out) : cur' = ret.out[i]
  /\ call' = Idle
  /\ ret' = Fail
  /\ UNCHANGED <<nops, others>>

Next ==
  \/ Select
  \/ Slice
  \/ Narrow
  \/ Split
  \/ SplitWithSizes
  \/ Chunk
  \/ InferSize
  \/ Diagonal
  \/ Permute
  \/ Transpose
  \/ Squeeze
  \/ SqueezeDim
  \/ Unsqueeze
  \/ Reshape
  \/ Continue

Spec == Init /\ [][Next]_vars

(***************************** in-place calls ******************************)
\* an in-place call on the current handle: the handle is left as the call
\* leaves it, whether it returns or throws; no other handle is written
ReadyInPlace == call = Idle /\ nops < MaxInPlace

ApplyInPlace(c, r) ==
  /\ call' = c
  /\ ret' = r
  /\ cur' = r.out
  /\ nops' = nops + 1
  /\ UNCHANGED others

Transpose_ ==
  /\ ReadyInPlace
  /\ \E dim0 \in DimArgs(cur), dim1 \in DimArgs(cur) :
    ApplyInPlace([op |-> "transpose_", self |-> cur, dim0 |-> dim0, dim1 |-> dim1],
                 transpose_(cur, dim0, dim1))

Squeeze_ ==
  /\ ReadyInPlace
  /\ ApplyInPlace([op |-> "squeeze_", self |-> cur], squeeze_(cur))

SqueezeDim_ ==
  /\ ReadyInPlace
  /\ \E dim \in DimArgs(cur) :
    ApplyInPlace([op |-> "squeeze__dim", self |-> cur, dim |-> dim], squeeze__dim(cur, dim))

Unsqueeze_ ==
  /\ ReadyInPlace
  /\ \E dim \in UnsqueezeArgs(cur) :
    ApplyInPlace([op |-> "unsqueeze_", self |-> cur, dim |-> dim], unsqueeze_(cur, dim))

InPlaceOps == {"transpose_", "squeeze_", "squeeze__dim", "unsqueeze_"}

\* the caller goes on with the view a call returned and keeps the handle
\* it was taken from
Derive ==
  /\ call # Idle
  /\ call.op \in ViewOps
  /\ ret.ok
  /\ cur' = ret.out
  /\ others' = Append(others, cur)
  /\ call' = Idle
  /\ ret' = Fail
  /\ UNCHANGED nops

\* an in-place call is over, returned or thrown; the caller goes on with
\* the same handle
Return ==
  /\ call # Idle
  /\ call.op \in InPlaceOps
  /\ call' = Idle
  /\ ret' = Fail
  /\ UNCHANGED <<cur, nops, others>>

NextInPlace ==
  \/ Select
  \/ Slice
  \/ Derive
  \/ Transpose_
  \/ Squeeze_
  \/ SqueezeDim_
  \/ Unsqueeze_
  \/ Return

SpecInPlace == Init /\ [][NextInPlace]_vars

(***************************** properties ********************************)
\* ceil(a / b) for a >= 0, b > 0
CeilDiv(a, b) == CHOOSE q \in 0..a : q * b >= a /\ (q - 1) * b < a

Clamp(x, lo, hi) == Max(lo, Min(x, hi))

\* x taken relative to size when negative
Rel(x, size) == IF x < 0 THEN x + size ELSE x

\* dim is a valid dimension of the current handle, whose rank is >= 1
ValidDim(dim) == Rank(cur) >= 1 /\ dim >= -Rank(cur) /\ dim < Rank(cur)

\* the dimension dim names, counted from 1
Pos(dim) == Rel(dim, Rank(cur)) + 1

\* the bounds s and e of slice(dim, start, end, step)
SliceS(dim, start) == Clamp(Rel(start, cur.sizes[Pos(dim)]), 0, cur.sizes[Pos(dim)])
SliceE(dim, start, end) ==
  Clamp(Rel(end, cur.sizes[Pos(dim)]), SliceS(dim, start), cur.sizes[Pos(dim)])

\* the view slice is said to return
SliceView(dim, start, end, step) ==
  LET s == SliceS(dim, start)
      e == SliceE(dim, start, end)
  IN [sizes |-> [cur.sizes EXCEPT ![Pos(dim)] = CeilDiv(e - s, step)],
      strides |-> [cur.strides EXCEPT ![Pos(dim)] = @ * step],
      offset |-> cur.offset + s * cur.strides[Pos(dim)],
      storage |-> cur.storage]

\* C1 as stated: for rank >= 1, a valid dim and step > 0, slice does not fail
\* and returns the view with size ceil((e - s)/step), stride old_stride * step
\* and offset old + s * old_stride along dim, also when e = s; slice fails
\* when step <= 0.
C1_SliceAsStated ==
  call.op = "slice" =>
    /\ (ValidDim(call.dim) /\ call.step > 0) =>
         (ret.ok /\ ret.out = SliceView(call.dim, call.start, call.end, call.step))
    /\ call.step <= 0 => ~ret.ok

\* C1, amended: as stated whenever e > s; when e = s slice does not fail
\* either, but returns a new empty tensor (one dimension of size 0) instead
\* of a view that keeps the other sizes and strides.
C1_Slice ==
  call.op = "slice" =>
    /\ (ValidDim(call.dim) /\ call.step > 0) =>
         /\ ret.ok
         /\ IF SliceE(call.dim, call.start, call.end) > SliceS(call.dim, call.start)
            THEN ret.out = SliceView(call.dim, call.start, call.end, call.step)
            ELSE ret.out.sizes = <<0>>
    /\ call.step <= 0 => ~ret.ok

\* C1, witness: a slice of a view of rank >= 2 with a negative start and a step that does
\* not divide the length
C1_Witness ==
  /\ call.op = "slice" /\ ret.ok
  /\ Rank(cur) >= 2 /\ nops = 2
  /\ call.start < 0 /\ call.step = 2
  /\ SliceE(call.dim, call.start, call.end) - SliceS(call.dim, call.start) = 3

\* the multi-index I of the result of select(dim, index) in the source
SelectIndex(I, dim, index) ==
  InsertAt(I, Pos(dim) - 1, Rel(index, cur.sizes[Pos(dim)]))

\* C2: for rank >= 1, a valid dim and an index in [-size(dim), size(dim)),
\* select returns a view of rank rank-1 with entry dim of the sizes and strides
\* removed, whose address at every multi-index I is the source address of I
\* with the wrapped index inserted at dim; select fails for rank 0 and for an
\* index outside [-size(dim), size(dim)).
C2_Select ==
  call.op = "select" =>
    /\ Rank(cur) = 0 => ~ret.ok
    /\ ValidDim(call.dim) =>
         LET size == cur.sizes[Pos(call.dim)] IN
         IF call.index >= -size /\ call.index < size
         THEN /\ ret.ok
              /\ Rank(ret.out) = Rank(cur) - 1
              /\ ret.out.sizes = Erase(cur.sizes, Pos(call.dim) - 1)
              /\ ret.out.strides = Erase(cur.strides, Pos(call.dim) - 1)
              /\ ret.out.storage = cur.storage
              /\ \A I \in Indices(ret.out.sizes) :
                   Addr(ret.out, I) = Addr(cur, SelectIndex(I, call.dim, call.index))
         ELSE ~ret.ok

\* C2, witness: a select with a negative index on a view of rank >= 2 that is not at
\* offset 0
C2_Witness ==
  /\ call.op = "select" /\ ret.ok
  /\ Rank(cur) >= 2 /\ cur.offset > 0
  /\ call.index < 0 /\ call.dim > 0
  /\ Numel(ret.out) >= 2

\* C3 as stated: for every tensor of rank >= 1 and every valid dim,
\* narrow(dim, 0, size(dim)) succeeds and returns the source's sizes, strides
\* and storage_offset.
C3_NarrowAsStated ==
  (call.op = "narrow" /\ ValidDim(call.dim)) =>
    ((call.start = 0 /\ call.length = cur.sizes[Pos(call.dim)]) =>
       (ret.ok /\ ret.out = cur))

\* C3, amended: for every tensor of rank >= 1 and every valid dim with
\* size(dim) > 0, narrow(dim, 0, size(dim)) succeeds and is the identity view.
C3_Narrow ==
  (call.op = "narrow" /\ ValidDim(call.dim)) =>
    ((call.start = 0 /\ call.length = cur.sizes[Pos(call.dim)]
      /\ cur.sizes[Pos(call.dim)] > 0) =>
       (ret.ok /\ ret.out = cur))

\* C3, witness: narrow(dim, 0, size(dim)) on a non-contiguous view of rank >= 2
C3_Witness ==
  /\ call.op = "narrow" /\ ValidDim(call.dim)
  /\ call.start = 0 /\ call.length = cur.sizes[Pos(call.dim)]
  /\ call.length >= 2 /\ Rank(cur) >= 2
  /\ cur.strides # ContiguousStrides(cur.sizes)
  /\ ret.ok

\* the view narrow(dim, start, length) is said to return
NarrowView(dim, start, length) ==
  [sizes |-> [cur.sizes EXCEPT ![Pos(dim)] = length],
   strides |-> cur.strides,
   offset |-> cur.offset + start * cur.strides[Pos(dim)],
   storage |-> cur.storage]

\* the lengths along dim of a list of views
Lengths(views, dim) == [i \in 1..Len(views) |-> views[i].sizes[Pos(dim)]]

\* the number of parts of split(split_size, dim)
SplitParts(size, split_size) ==
  IF split_size = 0 THEN 1 ELSE Max(CeilDiv(size, split_size), 1)

\* C4: for rank >= 1 and split_size > 0, or split_size = 0 with size(dim) = 0,
\* split returns max(ceil(size(dim)/split_size), 1) narrow views (1 when
\* split_size = 0), part i starting at i * split_size, every part but the last
\* of length split_size, the last of length size(dim) - split_size*(parts-1),
\* the lengths summing to size(dim); split fails when rank = 0, split_size < 0,
\* or split_size = 0 with size(dim) # 0.
C4_Split ==
  call.op = "split" =>
    /\ Rank(cur) = 0 => ~ret.ok
    /\ ValidDim(call.dim) =>
         LET size == cur.sizes[Pos(call.dim)]
             split_size == call.split_size
             parts == SplitParts(size, split_size)
         IN
         IF split_size > 0 \/ (split_size = 0 /\ size = 0)
         THEN /\ ret.ok
              /\ Len(ret.out) = parts
              /\ \A i \in 0..(parts - 1) :
                   ret.out[i + 1] =
                     NarrowView(call.dim, i * split_size,
                                IF i < parts - 1 THEN split_size
                                ELSE size - split_size * (parts - 1))
              /\ Sum(Lengths(ret.out, call.dim)) = size
         ELSE ~ret.ok

\* the sum of the first n entries of a list
SumBefore(list, n) == Sum(SubSeq(list, 1, n))

\* C5: for rank >= 1, split_with_sizes(sizes_list, dim) succeeds if and only
\* if every entry is >= 0 and the entries sum to size(dim); on success it
\* returns one narrow view per entry, in order, the i-th of length
\* sizes_list[i] and starting at the sum of the preceding entries.
C5_SplitWithSizes ==
  (call.op = "split_with_sizes" /\ ValidDim(call.dim)) =>
    LET list == call.split_sizes IN
    /\ ret.ok <=> /\ \A i \in 1..Len(list) : list[i] >= 0
                  /\ Sum(list) = cur.sizes[Pos(call.dim)]
    /\ ret.ok =>
         /\ Len(ret.out) = Len(list)
         /\ \A i \in 1..Len(list) :
              ret.out[i] = NarrowView(call.dim, SumBefore(list, i - 1), list[i])

\* C6: for rank >= 1 and n > 0, chunk(n, dim) computes
\* split_size = ceil(size(dim)/n) and returns at most n views, in order, whose
\* lengths along dim are all split_size except possibly a shorter last one and
\* sum to size(dim); when size(dim) = 0 it returns exactly n parts of length
\* 0; chunk fails when rank = 0 or n <= 0.
C6_Chunk ==
  call.op = "chunk" =>
    /\ (Rank(cur) = 0 \/ call.chunks <= 0) => ~ret.ok
    /\ (ValidDim(call.dim) /\ call.chunks > 0) =>
         LET size == cur.sizes[Pos(call.dim)]
             n == call.chunks
             split_size == CeilDiv(size, n)
             m == Len(ret.out)
         IN
         /\ ret.ok
         /\ IF size = 0
            THEN /\ m = n
                 /\ \A i \in 1..m : ret.out[i] = NarrowView(call.dim, 0, 0)
            ELSE /\ m >= 1 /\ m <= n
                 /\ \A i \in 1..m :
                      /\ ret.out[i] =
                           NarrowView(call.dim, (i - 1) * split_size,
                                      ret.out[i].sizes[Pos(call.dim)])
                      /\ i < m => ret.out[i].sizes[Pos(call.dim)] = split_size
                 /\ ret.out[m].sizes[Pos(call.dim)] >= 1
                 /\ ret.out[m].sizes[Pos(call.dim)] <= split_size
                 /\ Sum(Lengths(ret.out, call.dim)) = size

\* the positions (counted from 1) of the entries of a shape that are -1
FreeDims(shape) == {i \in 1..Len(shape) : shape[i] = -1}

\* the product of the entries of a shape that are not -1
OtherProduct(shape) ==
  Prod([i \in 1..Len(shape) |-> IF shape[i] = -1 THEN 1 ELSE shape[i]])

\* the requests infer_size is said to refuse
InferMustFail(shape, numel) ==
  \/ Cardinality(FreeDims(shape)) > 1
  \/ \E i \in 1..Len(shape) : shape[i] < -1
  \/ FreeDims(shape) = {} /\ OtherProduct(shape) # numel
  \/ /\ FreeDims(shape) # {}
     /\ \/ OtherProduct(shape) = 0
        \/ numel % OtherProduct(shape) # 0

\* C7: infer_size fails when the shape has more than one -1, an entry < -1,
\* no free entry and a product other than numel, or a free entry and a product
\* of the other entries that is 0 or does not divide numel; otherwise it
\* succeeds and, when numel > 0, returns the shape with the free entry replaced
\* by numel/newsize, the product of the result being numel; when numel = 0
\* every successful call returns <<0>>.
C7_InferSize ==
  call.op = "infer_size" =>
    LET shape == call.shape
        numel == call.numel
    IN
    /\ ret.ok <=> ~InferMustFail(shape, numel)
    /\ (ret.ok /\ numel > 0) =>
         /\ ret.out = [i \in 1..Len(shape) |->
                         IF shape[i] = -1 THEN numel \div OtherProduct(shape)
                         ELSE shape[i]]
         /\ Prod(ret.out) = numel
    /\ (ret.ok /\ numel = 0) => ret.out = <<0>>

\* C7, witness: a free entry inferred to a size >= 2 among other entries
C7_Witness ==
  /\ call.op = "infer_size" /\ ret.ok
  /\ call.numel >= 4 /\ Len(call.shape) >= 2
  /\ \E i \in FreeDims(call.shape) : ret.out[i] >= 2
  /\ OtherProduct(call.shape) >= 2

\* the diagonal's length
DiagSize(size1, size2, offset) ==
  IF offset >= 0 THEN Max(0, Min(size1, size2 - offset))
  ELSE Max(0, Min(size1 + offset, size2))

\* the source multi-index of element (rest, k) of diagonal(offset, dim1, dim2),
\* p1 and p2 being the positions (from 1) of dim1 and dim2
DiagIndex(rest, k, offset, p1, p2) ==
  [j \in 1..(Len(rest) + 2) |->
     IF j = p1 THEN (IF offset >= 0 THEN k ELSE k - offset)
     ELSE IF j = p2 THEN (IF offset >= 0 THEN k + offset ELSE k)
     ELSE rest[j - (IF j > p1 THEN 1 ELSE 0) - (IF j > p2 THEN 1 ELSE 0)]]

\* C8: for rank >= 2 and valid dims, diagonal fails when the dims coincide or
\* diag_size <= 0; otherwise it returns a view of rank rank-1 whose sizes and
\* strides are the source's with dim1 and dim2 removed and (diag_size,
\* stride(dim1) + stride(dim2)) appended, the address of element (rest, k)
\* being the source address at (dim1, dim2) = (k, k + offset) for offset >= 0
\* and (k - offset, k) for offset < 0.
C8_Diagonal ==
  (call.op = "diagonal" /\ Rank(cur) >= 2
   /\ ValidDim(call.dim1) /\ ValidDim(call.dim2)) =>
    LET p1 == Pos(call.dim1)
        p2 == Pos(call.dim2)
        diag_size == DiagSize(cur.sizes[p1], cur.sizes[p2], call.offset)
        hi == Max(p1, p2)
        lo == Min(p1, p2)
    IN
    IF p1 = p2 \/ diag_size <= 0 THEN ~ret.ok
    ELSE
      /\ ret.ok
      /\ Rank(ret.out) = Rank(cur) - 1
      /\ ret.out.sizes =
           Append(Erase(Erase(cur.sizes, hi - 1), lo - 1), diag_size)
      /\ ret.out.strides =
           Append(Erase(Erase(cur.strides, hi - 1), lo - 1),
                  cur.strides[p1] + cur.strides[p2])
      /\ ret.out.storage = cur.storage
      /\ \A rest \in Indices(Erase(Erase(cur.sizes, hi - 1), lo - 1)) :
           \A k \in 0..(diag_size - 1) :
             Addr(ret.out, Append(rest, k)) =
               Addr(cur, DiagIndex(rest, k, call.offset, p1, p2))

\* C8, witness: a diagonal of length >= 2 above the main one, of a tensor of rank 3 whose
\* dim1 comes after dim2
C8_Witness ==
  /\ call.op = "diagonal" /\ ret.ok
  /\ Rank(cur) = 3 /\ ValidDim(call.dim1) /\ ValidDim(call.dim2)
  /\ Pos(call.dim1) > Pos(call.dim2)
  /\ call.offset > 0
  /\ ret.out.sizes[Rank(ret.out)] >= 2

\* dims, wrapped by the rank, is a permutation of [0, rank)
IsPermutation(dims) ==
  /\ Len(dims) = Rank(cur)
  /\ \A i \in 1..Len(dims) : dims[i] >= -Rank(cur) /\ dims[i] < Rank(cur)
  /\ \A i, j \in 1..Len(dims) :
       i # j => Rel(dims[i], Rank(cur)) # Rel(dims[j], Rank(cur))

\* C9: permute(dims) succeeds if and only if dims, wrapped by the rank, is a
\* permutation of [0, rank); on success sizes[i] = old_sizes[dims[i]] and
\* strides[i] = old_strides[dims[i]], the storage_offset is unchanged, the
\* identity permutation returns the same geometry and numel is preserved.
C9_Permute ==
  call.op = "permute" =>
    /\ ret.ok <=> IsPermutation(call.dims)
    /\ ret.ok =>
         /\ Rank(ret.out) = Rank(cur)
         /\ \A i \in 1..Rank(cur) :
              /\ ret.out.sizes[i] = cur.sizes[Rel(call.dims[i], Rank(cur)) + 1]
              /\ ret.out.strides[i] = cur.strides[Rel(call.dims[i], Rank(cur)) + 1]
         /\ ret.out.offset = cur.offset
         /\ ret.out.storage = cur.storage
         /\ Numel(ret.out) = Numel(cur)
         /\ call.dims = [i \in 1..Rank(cur) |-> i - 1] => ret.out = cur

\* C9, witness: a permutation, given with a negative entry, that moves the dimensions of a
\* view of rank 3 whose sizes differ
C9_Witness ==
  /\ call.op = "permute" /\ ret.ok
  /\ Rank(cur) = 3 /\ cur.offset > 0
  /\ \E i \in 1..3 : call.dims[i] < 0
  /\ ret.out.sizes # cur.sizes

\* the positions (counted from 0, increasing) that squeeze() removes
RECURSIVE RemovedFrom(_, _)
RemovedFrom(sizes, d) ==
  IF d > Len(sizes) THEN <<>>
  ELSE (IF sizes[d] = 1 THEN <<d - 1>> ELSE <<>>) \o RemovedFrom(sizes, d + 1)

\* unsqueeze at each of the positions in turn
RECURSIVE UnsqueezeAll(_, _)
UnsqueezeAll(r, positions) ==
  IF positions = <<>> \/ ~r.ok THEN r
  ELSE UnsqueezeAll(unsqueeze(r.out, Head(positions)), Tail(positions))

\* C10: squeeze() followed by unsqueeze(p) at each removed position p, in
\* increasing order, succeeds and yields a view with the original sizes, the
\* original storage_offset and the original address at every multi-index.
C10_SqueezeUnsqueeze ==
  call.op = "squeeze" =>
    LET back == UnsqueezeAll(ret, RemovedFrom(cur.sizes, 1)) IN
    /\ ret.ok
    /\ back.ok
    /\ back.out.sizes = cur.sizes
    /\ back.out.offset = cur.offset
    /\ back.out.storage = cur.storage
    /\ \A I \in Indices(cur.sizes) : Addr(back.out, I) = Addr(cur, I)

\* C10, witness: squeeze() of a view that is not at offset 0 and has a dimension of size 1
\* between two larger ones
C10_Witness ==
  /\ call.op = "squeeze" /\ ret.ok
  /\ Rank(cur) = 3 /\ cur.offset > 0
  /\ cur.sizes[1] >= 2 /\ cur.sizes[2] = 1 /\ cur.sizes[3] >= 2

(***************************** C11 ****************************************)
\* the element of t at the multi-index I
Elem(t, I) == t.storage.data[Addr(t, I) + 1]

\* a shape of explicit sizes whose element count is that of cur
SameCount(shape) ==
  /\ \A i \in 1..Len(shape) : shape[i] >= 0
  /\ Prod(shape) = Numel(cur)

\* C11: for every shape s2 whose element count is t.numel(),
\* t.reshape(s2) succeeds and t.reshape(s2).reshape(t.sizes()) succeeds with
\* the sizes of t and, at every multi-index, the element t has there,
\* whether the first reshape returned a view of t's storage at t's offset
\* or a contiguous copy.
C11_ReshapeRoundTrip ==
  (call.op = "reshape" /\ SameCount(call.shape)) =>
    /\ ret.ok
    /\ \/ ret.out.storage = cur.storage /\ ret.out.offset = cur.offset
       \/ /\ ret.out.storage.id = "copy"
          /\ ret.out.offset = 0
          /\ RowMajor(ret.out.sizes, ret.out.strides) = [k \in 1..Numel(cur) |-> k - 1]
    /\ LET back == reshape(ret.out, cur.sizes) IN
       /\ back.ok
       /\ back.out.sizes = cur.sizes
       /\ \A I \in Indices(cur.sizes) : Elem(back.out, I) = Elem(cur, I)

\* a transposed matrix is reshaped to another shape through the copy
C11_Witness ==
  /\ call.op = "reshape"
  /\ SameCount(call.shape)
  /\ Numel(cur) >= 4
  /\ call.shape # cur.sizes
  /\ ret.ok
  /\ ret.out.storage.id = "copy"
  /\ reshape(ret.out, cur.sizes).ok

\* a reshape that is a view of the storage of a tensor that is itself a
\* view at a positive offset
C11_ViewWitness ==
  /\ call.op = "reshape"
  /\ SameCount(call.shape)
  /\ Numel(cur) >= 4
  /\ cur.offset > 0
  /\ call.shape # cur.sizes
  /\ ret.ok
  /\ ret.out.storage = cur.storage

(***************************** C13 ****************************************)
\* the geometry of v is well formed and every in-bounds multi-index of v
\* is mapped to an address inside the buffer of its storage
WellFormed(v) ==
  /\ Len(v.sizes) = Len(v.strides)
  /\ \A j \in 1..Len(v.sizes) : v.sizes[j] >= 0 /\ v.strides[j] >= 0
  /\ v.offset >= 0
  /\ \A I \in Indices(v.sizes) :
       Addr(v, I) >= 0 /\ Addr(v, I) < Len(v.storage.data)

\* v is a view of the buffer the sequence of calls started from; the one
\* tensor that is not is the empty tensor slice returns, which has no
\* in-bounds multi-index
OverOriginal(v) == v.storage.id = "base" \/ v = EmptyTensor

\* C13: starting from a contiguous tensor with storage_offset 0 over a
\* buffer of numel elements, after any sequence of successful select,
\* slice, narrow, permute, transpose, squeeze, unsqueeze and diagonal calls
\* the handle reached, and the view the next such call returns, have as many
\* strides as sizes, no negative size, stride or storage_offset, and map
\* every in-bounds multi-index to an address inside [0, numel) of the
\* original buffer.
C13_ViewsInBounds ==
  /\ WellFormed(cur)
  /\ OverOriginal(cur)
  /\ (call # Idle /\ call.op \in ViewOps /\ ret.ok) =>
       WellFormed(ret.out) /\ OverOriginal(ret.out)

\* the second call of a sequence takes the diagonal of a view that starts
\* inside the buffer, and the diagonal ends on the buffer's last element
C13_Witness ==
  /\ nops >= 2
  /\ call.op = "diagonal"
  /\ ret.ok
  /\ cur.offset > 0
  /\ cur.storage.id = "base"
  /\ Numel(ret.out) >= 2
  /\ \E I \in Indices(ret.out.sizes) : Addr(ret.out, I) = Len(cur.storage.data) - 1

(***************************** C12 ****************************************)
\* the step is an in-place call on the current handle
InPlaceCall == call = Idle /\ call' # Idle /\ call'.op \in InPlaceOps

\* C12: an in-place transpose_, squeeze_ or unsqueeze_ call that fails
\* leaves the handle's sizes, strides and storage_offset as they were; one
\* that succeeds leaves its storage_offset and storage as they were; either
\* way every other handle is as it was.
C12_InPlace ==
  [][InPlaceCall =>
       /\ ~ret'.ok =>
            /\ cur'.sizes = cur.sizes
            /\ cur'.strides = cur.strides
            /\ cur'.offset = cur.offset
       /\ cur'.offset = cur.offset
       /\ cur'.storage = cur.storage
       /\ others' = others]_vars

\* a view at a positive offset, whose source handle is kept, has been
\* transposed in place after an earlier in-place call on it
C12_Witness ==
  /\ call.op = "transpose_"
  /\ ret.ok
  /\ cur.sizes # call.self.sizes
  /\ cur.strides # call.self.strides
  /\ cur.offset > 0
  /\ others # <<>>
  /\ others[1].storage = cur.storage
  /\ nops = MaxInPlace

\* unsqueeze_ of the zero-element tensor has thrown
C12_ThrownWitness ==
  /\ call.op = "unsqueeze_"
  /\ ~ret.ok
  /\ DimOk(call.dim, Rank(call.self) + 1)
  /\ Numel(cur) = 0

====
